---- MODULE Spec2Model ----
(***************************************************************************)
(* Model of wgpu/src/util/mod.rs: make_spirv, DeviceExt::create_buffer_init *)
(* and DeviceExt::create_texture_with_data.                                *)
(*                                                                         *)
(* Each of the three functions is a sequential call; it is modelled as a   *)
(* small state machine whose program counter follows the statements of the *)
(* function, with one specification per function (SpecSpirv, SpecBuffer,   *)
(* SpecTexture).  A Rust panic ends the call in the pc value "panic" with  *)
(* the panic recorded in the call's error variable.                        *)
(***************************************************************************)
EXTENDS Integers, Sequences, FiniteSets, TLC

VARIABLES
    \* ---- make_spirv ----
    data,          \* the input byte slice (a sequence of bytes 0..255)
    aligned,       \* data.as_ptr().align_offset(align_of::<u32>()) == 0
    bigEndian,     \* byte order of the target the crate is built for
    sv_pc,         \* position inside make_spirv
    words,         \* the local `words` (a sequence of u32 values)
    sv_err,        \* the panic raised, or NoErr
    \* ---- create_buffer_init ----
    contents,      \* descriptor.contents
    bi_pc,         \* position inside create_buffer_init
    buffer,        \* the buffer made by the device, or NoBuffer
    slice,         \* TRUE while the mapped-range view `slice` is alive
    bi_calls,      \* the collaborator calls made so far, in order
    bi_err,        \* the panic propagated out of the call, or NoErr
    \* ---- create_texture_with_data ----
    desc,          \* the TextureDescriptor (dimension, size, format, mip_level_count)
    data_len,      \* data.len() of the source buffer
    tx_pc,         \* position inside create_texture_with_data
    texture,       \* TRUE once create_texture has been called
    layer,         \* loop variable of the outer loop
    mip,           \* loop variable of the inner loop
    binary_offset, \* the running cursor into data
    writes,        \* the write_texture calls issued so far, in order
    tx_err         \* the panic raised, or NoErr

svVars == <<data, aligned, bigEndian, sv_pc, words, sv_err>>
biVars == <<contents, bi_pc, buffer, slice, bi_calls, bi_err>>
txVars == <<desc, data_len, tx_pc, texture, layer, mip, binary_offset, writes, tx_err>>
vars == <<svVars, biVars, txVars>>

NoErr == [kind |-> "none"]

(***************************************************************************)
(* Bounds of the model.                                                    *)
(***************************************************************************)
MaxDataLen == 8
MaxContentLen == 5
MaxMipCount == 3
MaxDepth == 2

(***************************************************************************)
(* make_spirv                                                              *)
(***************************************************************************)
MAGIC_NUMBER == 119734787      \* 0x0723_0203
SizeOfU32 == 4

\* Bytes of the first word are drawn from the four bytes of the magic number
\* (03 02 23 07 in little-endian order); later bytes from a smaller set.  Every
\* byte is below 128 so that a u32 value stays inside TLC's integers.
HeadBytes == {2, 3, 7, 35}
TailBytes == {0, 127}

SpirvInputs ==
    UNION { { s \in [1..n -> HeadBytes \cup TailBytes] :
                \A i \in 1..n : (i <= SizeOfU32 => s[i] \in HeadBytes)
                             /\ (i > SizeOfU32 => s[i] \in TailBytes) } :
            n \in 0..MaxDataLen }

Pow256(k) == IF k = 0 THEN 1 ELSE IF k = 1 THEN 256 ELSE IF k = 2 THEN 65536 ELSE 16777216

\* Position (0 = least significant) that the byte at address offset p of a
\* u32 occupies in its value.
ByteShift(p, be) == IF be THEN (SizeOfU32 - 1) - p ELSE p

\* The u32 read from four consecutive bytes of memory in native byte order.
ReadU32(b, i, be) ==
      b[i]     * Pow256(ByteShift(0, be))
    + b[i + 1] * Pow256(ByteShift(1, be))
    + b[i + 2] * Pow256(ByteShift(2, be))
    + b[i + 3] * Pow256(ByteShift(3, be))

\* data.align_to::<u32>() on an aligned pointer: the middle slice holds every
\* whole u32 of the bytes, read in place.
AlignToWords(b, be) ==
    [w \in 1..(Len(b) \div SizeOfU32) |-> ReadU32(b, SizeOfU32 * (w - 1) + 1, be)]

\* Storing one byte at address offset p inside the u32 value w.
StoreByteLittleEndianOnly(w, p, v, be) ==
    LET s == Pow256(p)
        old == (w \div s) % 256
    IN  w - old * s + v * s
StoreByte(w, p, v, be) ==
    LET s == Pow256(ByteShift(p, be))
        old == (w \div s) % 256
    IN  w - old * s + v * s

\* copy_nonoverlapping(data.as_ptr(), words.as_mut_ptr() as *mut u8, n) into
\* the word vector ws: byte k (0-based) of the source lands in byte k of the
\* destination memory.
RECURSIVE CopyBytes(_, _, _, _)
CopyBytes(ws, b, n, be) ==
    IF n = 0 THEN ws
    ELSE LET prev == CopyBytes(ws, b, n - 1, be)
             k == n - 1
             wi == (k \div SizeOfU32) + 1
         IN  [prev EXCEPT ![wi] = StoreByte(prev[wi], k % SizeOfU32, b[n], be)]

\* vec![0u32; data.len() / size_of::<u32>()] followed by the byte copy.
CopiedWords(b, be) ==
    CopyBytes([w \in 1..(Len(b) \div SizeOfU32) |-> 0], b, Len(b), be)

\* The two branches of `let words = if ... { ... } else { ... }`.
BuildWordsOf(b, al, be) == IF al THEN AlignToWords(b, be) ELSE CopiedWords(b, be)

\* First assert_eq!: data.len() % size_of::<u32>() == 0.
LengthOk(b) == Len(b) % SizeOfU32 = 0

\* Second assert_eq!: words[0] == MAGIC_NUMBER.
MagicOkBroken(ws) == TRUE
MagicOk(ws) == ws[1] = MAGIC_NUMBER

SvCheckLength ==
    /\ sv_pc = "start"
    /\ IF LengthOk(data)
         THEN /\ sv_pc' = "build_words"
              /\ sv_err' = sv_err
         ELSE /\ sv_pc' = "panic"
              /\ sv_err' = [kind |-> "data size is not a multiple of 4"]
    /\ UNCHANGED <<data, aligned, bigEndian, words, biVars, txVars>>

SvBuildWords ==
    /\ sv_pc = "build_words"
    /\ words' = BuildWordsOf(data, aligned, bigEndian)
    /\ sv_pc' = "check_magic"
    /\ UNCHANGED <<data, aligned, bigEndian, sv_err, biVars, txVars>>

SvCheckMagic ==
    /\ sv_pc = "check_magic"
    /\ IF Len(words) = 0
         THEN \* words[0] on an empty slice
              /\ sv_pc' = "panic"
              /\ sv_err' = [kind |-> "index out of bounds"]
         ELSE IF MagicOk(words)
         THEN /\ sv_pc' = "returned"
              /\ sv_err' = sv_err
         ELSE /\ sv_pc' = "panic"
              /\ sv_err' = [kind |-> "wrong magic word", observed |-> words[1]]
    /\ UNCHANGED <<data, aligned, bigEndian, words, biVars, txVars>>

NextSpirv == SvCheckLength \/ SvBuildWords \/ SvCheckMagic

NoBuffer == [created |-> FALSE, size |-> 0, mapped |-> FALSE, mem |-> <<>>]

\* Values of the variables of the calls a specification does not make.
IdleSpirv ==
    /\ data = <<>> /\ aligned = TRUE /\ bigEndian = FALSE
    /\ sv_pc = "idle" /\ words = <<>> /\ sv_err = NoErr
IdleBuffer ==
    /\ contents = <<>> /\ bi_pc = "idle" /\ buffer = NoBuffer
    /\ slice = FALSE /\ bi_calls = <<>> /\ bi_err = NoErr
IdleTexture ==
    /\ desc = [dimension |-> "D2", size |-> [width |-> 1, height |-> 1, depth |-> 1],
              format |-> "Rgba8Unorm", mip_level_count |-> 1]
    /\ data_len = 0 /\ tx_pc = "idle"
    /\ texture = FALSE /\ layer = 0 /\ mip = 0 /\ binary_offset = 0
    /\ writes = <<>> /\ tx_err = NoErr

InitSpirv ==
    /\ data \in SpirvInputs
    /\ aligned \in BOOLEAN
    /\ bigEndian \in BOOLEAN
    /\ sv_pc = "start"
    /\ words = <<>>
    /\ sv_err = NoErr
    /\ IdleBuffer
    /\ IdleTexture

SpecSpirv == InitSpirv /\ [][NextSpirv]_vars

(***************************************************************************)
(* DeviceExt::create_buffer_init                                           *)
(***************************************************************************)
COPY_BUFFER_ALIGNMENT == 4

ContentBytes == {0, 7, 255}
BufferInputs == UNION { [1..n -> ContentBytes] : n \in 0..MaxContentLen }

\* What the freshly mapped memory may hold before it is written.
FreshBytes == {0, 170}

\* let padding = COPY_BUFFER_ALIGNMENT - (unpadded_size % COPY_BUFFER_ALIGNMENT);
PaddingSkippedWhenAligned(unpadded_size) ==
    IF unpadded_size % COPY_BUFFER_ALIGNMENT = 0 THEN 0
    ELSE COPY_BUFFER_ALIGNMENT - (unpadded_size % COPY_BUFFER_ALIGNMENT)
Padding(unpadded_size) ==
    COPY_BUFFER_ALIGNMENT - (unpadded_size % COPY_BUFFER_ALIGNMENT)

\* let padded_size = padding + unpadded_size;
PaddedSize(unpadded_size) == Padding(unpadded_size) + unpadded_size

\* slice[0..unpadded_size].copy_from_slice(descriptor.contents)
CopyFromSlice(mem, src) ==
    [i \in 1..Len(mem) |-> IF i <= Len(src) THEN src[i] ELSE mem[i]]

\* for i in unpadded_size..padded_size { slice[i] = 0 }
ZeroTail(mem, from, to) ==
    [i \in 1..Len(mem) |-> IF i > from /\ i <= to THEN 0 ELSE mem[i]]

\* self.create_buffer(&wgt_descriptor) with mapped_at_creation: true.
BiCreateBuffer ==
    /\ bi_pc = "start"
    /\ LET padded_size == PaddedSize(Len(contents))
       IN  /\ bi_calls' = Append(bi_calls,
                  [op |-> "create_buffer", size |-> padded_size, mapped_at_creation |-> TRUE])
           /\ \E f \in FreshBytes :
                  buffer' = [created |-> TRUE, size |-> padded_size, mapped |-> TRUE,
                             mem |-> [i \in 1..padded_size |-> f]]
    /\ bi_pc' = "get_mapped_range"
    /\ UNCHANGED <<contents, slice, bi_err, svVars, txVars>>

\* The device fails to allocate or map: the failure is propagated.
BiCreateBufferFails ==
    /\ bi_pc = "start"
    /\ bi_calls' = Append(bi_calls,
           [op |-> "create_buffer", size |-> PaddedSize(Len(contents)),
            mapped_at_creation |-> TRUE])
    /\ bi_err' = [kind |-> "create_buffer failed"]
    /\ bi_pc' = "panic"
    /\ UNCHANGED <<contents, buffer, slice, svVars, txVars>>

\* let mut slice = buffer.slice(..).get_mapped_range_mut();
BiGetMappedRange ==
    /\ bi_pc = "get_mapped_range"
    /\ bi_calls' = Append(bi_calls, [op |-> "get_mapped_range_mut"])
    /\ slice' = TRUE
    /\ bi_pc' = "copy"
    /\ UNCHANGED <<contents, buffer, bi_err, svVars, txVars>>

\* get_mapped_range_mut panics: the call unwinds from line 96, and line 103
\* (buffer.unmap()) is not on the unwinding path.
BiGetMappedRangeFails ==
    /\ bi_pc = "get_mapped_range"
    /\ bi_calls' = Append(bi_calls, [op |-> "get_mapped_range_mut"])
    /\ bi_err' = [kind |-> "get_mapped_range_mut failed"]
    /\ bi_pc' = "panic"
    /\ UNCHANGED <<contents, buffer, slice, svVars, txVars>>

BiCopy ==
    /\ bi_pc = "copy"
    /\ slice
    /\ buffer' = [buffer EXCEPT !.mem = CopyFromSlice(buffer.mem, contents)]
    /\ bi_calls' = Append(bi_calls, [op |-> "write_mapped"])
    /\ bi_pc' = "zero_tail"
    /\ UNCHANGED <<contents, slice, bi_err, svVars, txVars>>

BiZeroTail ==
    /\ bi_pc = "zero_tail"
    /\ slice
    /\ buffer' = [buffer EXCEPT !.mem = ZeroTail(buffer.mem, Len(contents), buffer.size)]
    /\ bi_calls' = Append(bi_calls, [op |-> "write_mapped"])
    /\ bi_pc' = "drop_slice"
    /\ UNCHANGED <<contents, slice, bi_err, svVars, txVars>>

\* End of the inner block: `slice` goes out of scope.
BiDropSlice ==
    /\ bi_pc = "drop_slice"
    /\ slice' = FALSE
    /\ bi_calls' = Append(bi_calls, [op |-> "drop_mapped_range"])
    /\ bi_pc' = "unmap"
    /\ UNCHANGED <<contents, buffer, bi_err, svVars, txVars>>

\* buffer.unmap();
BiUnmap ==
    /\ bi_pc = "unmap"
    /\ buffer' = [buffer EXCEPT !.mapped = FALSE]
    /\ bi_calls' = Append(bi_calls, [op |-> "unmap"])
    /\ bi_pc' = "return"
    /\ UNCHANGED <<contents, slice, bi_err, svVars, txVars>>

BiReturn ==
    /\ bi_pc = "return"
    /\ bi_pc' = "returned"
    /\ UNCHANGED <<contents, buffer, slice, bi_calls, bi_err, svVars, txVars>>

NextBuffer ==
    \/ BiCreateBuffer \/ BiCreateBufferFails
    \/ BiGetMappedRange \/ BiGetMappedRangeFails
    \/ BiCopy \/ BiZeroTail \/ BiDropSlice \/ BiUnmap \/ BiReturn

InitBuffer ==
    /\ contents \in BufferInputs
    /\ bi_pc = "start"
    /\ buffer = NoBuffer
    /\ slice = FALSE
    /\ bi_calls = <<>>
    /\ bi_err = NoErr
    /\ IdleSpirv
    /\ IdleTexture

SpecBuffer == InitBuffer /\ [][NextBuffer]_vars

(***************************************************************************)
(* DeviceExt::create_texture_with_data                                     *)
(***************************************************************************)
U8_MAX == 255

Dimensions == {"D1", "D2", "D3"}
Formats == {"Rgba8Unorm", "Bc1RgbaUnorm", "Bc3RgbaUnorm"}
Dims == {1, 5, 8}
DataLens == {0, 3, 16, 100, 256, 300, 340, 700, 1100}
MipCounts == (1..MaxMipCount) \cup {U8_MAX + 1}

TextureInputs ==
    [dimension : Dimensions,
     size : [width : Dims, height : Dims, depth : 1..MaxDepth],
     format : Formats,
     mip_level_count : MipCounts]

\* desc.format.describe(): block dimensions in texels and bytes per block.
Describe(format) ==
    CASE format = "Rgba8Unorm"   -> [block_dimensions |-> <<1, 1>>, block_size |-> 4]
      [] format = "Bc1RgbaUnorm" -> [block_dimensions |-> <<4, 4>>, block_size |-> 8]
      [] format = "Bc3RgbaUnorm" -> [block_dimensions |-> <<4, 4>>, block_size |-> 16]

Max(a, b) == IF a >= b THEN a ELSE b
Shr(x, n) == x \div (2 ^ n)

\* Extent3d::at_mip_level: the base extent halved per level, at least 1 on
\* every axis.  It is defined for every level here, so the .unwrap() of line
\* 135 always succeeds.
AtMipLevel(extent, level) ==
    [width  |-> Max(1, Shr(extent.width, level)),
     height |-> Max(1, Shr(extent.height, level)),
     depth  |-> Max(1, Shr(extent.depth, level))]

\* Extent3d::physical_size: width and height rounded up to a multiple of the
\* block dimensions, depth untouched.
PhysicalSize(extent, format) ==
    LET bw == Describe(format).block_dimensions[1]
        bh == Describe(format).block_dimensions[2]
    IN  [width  |-> ((extent.width + bw - 1) \div bw) * bw,
         height |-> ((extent.height + bh - 1) \div bh) * bh,
         depth  |-> extent.depth]

\* let (layer_iterations, mip_extent) = if desc.dimension == D3 { .. } else { .. };
LayerIterationsAlwaysDepth(d) == d.size.depth
LayerIterations(d) == IF d.dimension = "D3" THEN 1 ELSE d.size.depth
MipExtent(d) == IF d.dimension = "D3" THEN d.size ELSE [d.size EXCEPT !.depth = 1]

\* u8::try_from(desc.mip_level_count) is Ok.
FitsU8(n) == n >= 0 /\ n <= U8_MAX

\* The u32 arithmetic of lines 144-150.  Every value the inputs below produce
\* is far below 2^32, so no product wraps or overflows.
WidthBlocks(mip_physical, info) == mip_physical.width \div info.block_dimensions[1]
HeightBlocks(mip_physical, info) == mip_physical.height \div info.block_dimensions[2]
BytesPerRow(width_blocks, info) == width_blocks * info.block_size
DataSizeOneRow(bytes_per_row, height_blocks) == bytes_per_row
DataSize(bytes_per_row, height_blocks) == bytes_per_row * height_blocks
EndOffset(offset, data_size) == offset + data_size

\* binary_offset = end_offset;
AdvanceByRow(offset, end_offset, bytes_per_row) == offset + bytes_per_row
Advance(offset, end_offset, bytes_per_row) == end_offset

\* The bounds check of &data[binary_offset..end_offset].
SliceInBoundsUnchecked(lo, hi, len) == TRUE
SliceInBounds(lo, hi, len) == lo <= hi /\ hi <= len

\* let texture = self.create_texture(desc);
TxCreateTexture ==
    /\ tx_pc = "start"
    /\ texture' = TRUE
    /\ tx_pc' = "convert_mip_count"
    /\ UNCHANGED <<desc, data_len, layer, mip, binary_offset, writes, tx_err, svVars, biVars>>

\* u8::try_from(desc.mip_level_count).expect(..); let mut binary_offset = 0;
TxConvertMipCount ==
    /\ tx_pc = "convert_mip_count"
    /\ IF FitsU8(desc.mip_level_count)
         THEN /\ tx_pc' = "loop"
              /\ tx_err' = tx_err
         ELSE /\ tx_pc' = "panic"
              /\ tx_err' = [kind |-> "mip level count overflows a u8"]
    /\ layer' = 0
    /\ mip' = 0
    /\ binary_offset' = 0
    /\ UNCHANGED <<desc, data_len, texture, writes, svVars, biVars>>

\* The loop body for the current (layer, mip), up to the slice expression.
BodyPhysical == PhysicalSize(AtMipLevel(MipExtent(desc), mip), desc.format)
BodyBytesPerRow == BytesPerRow(WidthBlocks(BodyPhysical, Describe(desc.format)), Describe(desc.format))
BodyDataSize == DataSize(BodyBytesPerRow, HeightBlocks(BodyPhysical, Describe(desc.format)))
BodyEndOffset == EndOffset(binary_offset, BodyDataSize)

InBody ==
    /\ tx_pc = "loop"
    /\ layer < LayerIterations(desc)
    /\ mip < desc.mip_level_count

\* One iteration of the inner loop: queue.write_texture(..) and the cursor update.
TxWriteMip ==
    /\ InBody
    /\ SliceInBounds(binary_offset, BodyEndOffset, data_len)
    /\ writes' = Append(writes,
          [mip_level |-> mip,
           origin |-> [x |-> 0, y |-> 0, z |-> layer],
           start |-> binary_offset,
           len |-> BodyEndOffset - binary_offset,
           layout |-> [offset |-> 0, bytes_per_row |-> BodyBytesPerRow, rows_per_image |-> 0],
           size |-> BodyPhysical])
    /\ binary_offset' = Advance(binary_offset, BodyEndOffset, BodyBytesPerRow)
    /\ mip' = mip + 1
    /\ UNCHANGED <<desc, data_len, tx_pc, texture, layer, tx_err, svVars, biVars>>

\* &data[binary_offset..end_offset] panics: the range ends past data.len().
TxSliceOutOfBounds ==
    /\ InBody
    /\ ~SliceInBounds(binary_offset, BodyEndOffset, data_len)
    /\ tx_pc' = "panic"
    /\ tx_err' = [kind |-> "range end index out of range",
                  end_offset |-> BodyEndOffset, len |-> data_len]
    /\ UNCHANGED <<desc, data_len, texture, layer, mip, binary_offset, writes, svVars, biVars>>

\* The inner loop is exhausted: next iteration of `for layer in 0..layer_iterations`.
TxNextLayer ==
    /\ tx_pc = "loop"
    /\ layer < LayerIterations(desc)
    /\ mip >= desc.mip_level_count
    /\ layer' = layer + 1
    /\ mip' = 0
    /\ UNCHANGED <<desc, data_len, tx_pc, texture, binary_offset, writes, tx_err, svVars, biVars>>

\* The outer loop is exhausted: the function returns `texture`.
TxReturn ==
    /\ tx_pc = "loop"
    /\ layer >= LayerIterations(desc)
    /\ tx_pc' = "returned"
    /\ UNCHANGED <<desc, data_len, texture, layer, mip, binary_offset, writes, tx_err, svVars, biVars>>

NextTexture ==
    \/ TxCreateTexture \/ TxConvertMipCount
    \/ TxWriteMip \/ TxSliceOutOfBounds \/ TxNextLayer \/ TxReturn

InitTexture ==
    /\ desc \in TextureInputs
    /\ data_len \in DataLens
    /\ tx_pc = "start"
    /\ texture = FALSE
    /\ layer = 0
    /\ mip = 0
    /\ binary_offset = 0
    /\ writes = <<>>
    /\ tx_err = NoErr
    /\ IdleSpirv
    /\ IdleBuffer

SpecTexture == InitTexture /\ [][NextTexture]_vars

(***************************************************************************)
(* Properties                                                              *)
(***************************************************************************)

\* ---- helpers of the properties: the sizes stated directly ----
RoundUp(x, m) == ((x + m - 1) \div m) * m
BlockW(d) == Describe(d.format).block_dimensions[1]
BlockH(d) == Describe(d.format).block_dimensions[2]
BlockBytes(d) == Describe(d.format).block_size
PhysW(d, m) == RoundUp(Max(1, d.size.width \div (2 ^ m)), BlockW(d))
PhysH(d, m) == RoundUp(Max(1, d.size.height \div (2 ^ m)), BlockH(d))
SubImageBytes(d, m) == (PhysW(d, m) \div BlockW(d)) * (PhysH(d, m) \div BlockH(d)) * BlockBytes(d)
LayerCount(d) == IF d.dimension = "D3" THEN 1 ELSE d.size.depth

\* Bytes of mips 0 .. m-1 of one layer.
RECURSIVE MipChainBytes(_, _)
MipChainBytes(d, m) == IF m = 0 THEN 0 ELSE MipChainBytes(d, m - 1) + SubImageBytes(d, m - 1)

\* Bytes of the first j (layer, mip) pairs in layer-major order.
PairsBytes(d, j) ==
    (j \div d.mip_level_count) * MipChainBytes(d, d.mip_level_count)
    + MipChainBytes(d, j % d.mip_level_count)
TotalBytes(d) == LayerCount(d) * MipChainBytes(d, d.mip_level_count)

RECURSIVE SumLens(_, _)
SumLens(ws, n) == IF n = 0 THEN 0 ELSE SumLens(ws, n - 1) + ws[n].len

\* The bytes of a word sequence in memory, in native byte order.
WordBytes(ws, be) ==
    [i \in 1..(SizeOfU32 * Len(ws)) |->
        (ws[((i - 1) \div SizeOfU32) + 1] \div Pow256(ByteShift((i - 1) % SizeOfU32, be))) % 256]

SvDone == sv_pc \in {"returned", "panic"}
BiDone == bi_pc \in {"returned", "panic"}
TxDone == tx_pc \in {"returned", "panic"}
OpsOf(calls) == [i \in 1..Len(calls) |-> calls[i].op]

\* C1: for every content length L, create_buffer_init requests and returns a
\* buffer of size L + (A - (L mod A)); its first L bytes are the contents, the
\* bytes from L to the size are zero; the size is a multiple of A, greater
\* than L, and L + A when L is a multiple of A.
BufferInitPaddedAndZeroed ==
    LET L == Len(contents)
        A == COPY_BUFFER_ALIGNMENT
        size == L + (A - (L % A))
    IN  /\ \A i \in 1..Len(bi_calls) :
              bi_calls[i].op = "create_buffer" =>
                  bi_calls[i].size = size /\ bi_calls[i].mapped_at_creation
        /\ bi_pc = "returned" =>
              /\ buffer.created
              /\ buffer.size = size
              /\ Len(buffer.mem) = size
              /\ \A i \in 1..L : buffer.mem[i] = contents[i]
              /\ \A i \in (L + 1)..size : buffer.mem[i] = 0
              /\ size % A = 0
              /\ size > L
              /\ (L % A = 0 => size = L + A)

\* Witness of C1: a buffer returned for contents whose length is a non-zero
\* multiple of the alignment and that hold a non-zero byte.
BufferInitAlignedReturned ==
    /\ bi_pc = "returned"
    /\ Len(contents) = COPY_BUFFER_ALIGNMENT
    /\ contents[1] = 255
    /\ buffer.size = 2 * COPY_BUFFER_ALIGNMENT

\* C2: the ranges [binary_offset, end_offset) of successive write_texture
\* calls tile a prefix of the source buffer: the first starts at 0, each later
\* one starts where the previous one ended, the cursor is the sum of the sizes
\* written, and on return it is the sum of all sub-image sizes.
TextureRangesTilePrefix ==
    /\ writes # <<>> => writes[1].start = 0
    /\ \A i \in 1..Len(writes) : writes[i].len >= 0
    /\ \A i \in 1..(Len(writes) - 1) :
          writes[i + 1].start = writes[i].start + writes[i].len
    /\ tx_pc \in {"loop", "returned", "panic"} => binary_offset = SumLens(writes, Len(writes))
    /\ binary_offset <= data_len
    /\ tx_pc = "returned" => binary_offset = TotalBytes(desc)

\* Witness of C2: a call that returned after writing two layers of two mips.
TextureTwoLayersTiled ==
    /\ tx_pc = "returned"
    /\ Len(writes) = 4
    /\ desc.size.depth = 2
    /\ writes[4].start > writes[3].start

\* C3: the writes are issued in layer-major order, mips ascending inside a
\* layer, one per (layer, mip); a D3 texture has one layer iteration (origin
\* (0,0,0), mip 0 of the full base depth), any other dimension has size.depth
\* of them, layer l written at origin (0,0,l) with extents of depth 1.
TextureWritesInLayerMipOrder ==
    LET n == desc.mip_level_count
    IN  /\ \A i \in 1..Len(writes) :
              /\ writes[i].mip_level = (i - 1) % n
              /\ writes[i].origin = [x |-> 0, y |-> 0, z |-> (i - 1) \div n]
              /\ desc.dimension = "D3" =>
                    /\ writes[i].origin.z = 0
                    /\ (writes[i].mip_level = 0 => writes[i].size.depth = desc.size.depth)
              /\ desc.dimension # "D3" => writes[i].size.depth = 1
        /\ tx_pc = "returned" =>
              Len(writes) = (IF desc.dimension = "D3" THEN 1 ELSE desc.size.depth) * n

\* Witness of C3: a D3 texture of depth 2 uploaded with two mips.
TextureD3Uploaded ==
    /\ tx_pc = "returned"
    /\ desc.dimension = "D3"
    /\ desc.size.depth = 2
    /\ Len(writes) = 2

\* The scenario of C4: base 8x8, 4x4 blocks of 16 bytes, 1 mip, 1 layer.
ScenarioDesc ==
    [dimension |-> "D2", size |-> [width |-> 8, height |-> 8, depth |-> 1],
     format |-> "Bc3RgbaUnorm", mip_level_count |-> 1]

\* Every write's slice is (physical width / block width) * (physical height /
\* block height) * block byte size long, the physical extent being the logical
\* one (base >> mip, at least 1) rounded up to the block dimensions; the layout
\* has offset 0, bytes_per_row = (physical width / block width) * block byte
\* size and rows_per_image 0.
SliceSizeAndLayoutOfEveryWrite ==
    \A i \in 1..Len(writes) :
        LET w == writes[i]
        IN  /\ w.size.width = PhysW(desc, w.mip_level)
            /\ w.size.height = PhysH(desc, w.mip_level)
            /\ w.len = SubImageBytes(desc, w.mip_level)
            /\ w.layout = [offset |-> 0,
                           bytes_per_row |-> (PhysW(desc, w.mip_level) \div BlockW(desc)) * BlockBytes(desc),
                           rows_per_image |-> 0]

\* The scenario uploaded as exactly one write of n bytes at origin (0,0,0), mip 0.
ScenarioIsOneWriteOf(n) ==
    (desc = ScenarioDesc /\ tx_pc = "returned") =>
        /\ Len(writes) = 1
        /\ writes[1].len = n
        /\ writes[1].start = 0
        /\ writes[1].origin = [x |-> 0, y |-> 0, z |-> 0]
        /\ writes[1].mip_level = 0
        /\ writes[1].size = [width |-> 8, height |-> 8, depth |-> 1]

\* C4 as stated: the size and layout of every write as above, and the scenario
\* gives exactly one write of 256 bytes at origin (0,0,0), mip 0.
TextureSliceSizeAndLayoutAsClaimed ==
    /\ SliceSizeAndLayoutOfEveryWrite
    /\ ScenarioIsOneWriteOf(256)

\* C4 amended: the size and layout of every write as above, and the scenario
\* gives exactly one write of (8/4) * (8/4) * 16 = 64 bytes at origin (0,0,0),
\* mip 0.
TextureSliceSizeAndLayout ==
    /\ SliceSizeAndLayoutOfEveryWrite
    /\ ScenarioIsOneWriteOf(64)

\* Witness of C4: the scenario has been uploaded.
TextureScenarioUploaded ==
    /\ desc = ScenarioDesc
    /\ tx_pc = "returned"
    /\ writes # <<>>

\* C5: a mip_level_count that does not fit in 8 bits fails with the overflow
\* error before any resource is created: no create_texture and no
\* write_texture call has been made when the failure is raised.
MipOverflowBeforeAnyResource ==
    tx_err.kind = "mip level count overflows a u8" => (~texture /\ writes = <<>>)

\* C6: a source buffer shorter than the sum of the sub-image sizes makes the
\* call fail with an out-of-bounds error at the first (layer, mip) whose end
\* offset exceeds data.len(); no write is issued with a slice past the end of
\* the source, and no texture is returned.
TextureShortSourceFails ==
    LET short == FitsU8(desc.mip_level_count) /\ data_len < TotalBytes(desc)
    IN  /\ \A i \in 1..Len(writes) : writes[i].start + writes[i].len <= data_len
        /\ short => tx_pc # "returned"
        /\ (short /\ TxDone) =>
              /\ tx_pc = "panic"
              /\ tx_err.kind = "range end index out of range"
              /\ Len(writes) = layer * desc.mip_level_count + mip
              /\ PairsBytes(desc, Len(writes)) <= data_len
              /\ PairsBytes(desc, Len(writes) + 1) > data_len
              /\ tx_err.end_offset = PairsBytes(desc, Len(writes) + 1)
        /\ tx_err.kind = "range end index out of range" => short

\* Witness of C6: the out-of-bounds failure after two writes were issued.
TextureFailedMidway ==
    /\ tx_pc = "panic"
    /\ tx_err.kind = "range end index out of range"
    /\ Len(writes) = 2
    /\ layer = 1

\* C7: make_spirv fails with the length error for every input whose length is
\* not a multiple of 4, before anything else is done; it fails with the magic
\* error naming the observed word for every input of a multiple-of-4 length
\* whose first word is not 0x07230203; it returns only when both checks pass.
SpirvLengthThenMagic ==
    LET badLen == Len(data) % 4 # 0
        hasWord == Len(data) >= 4
        first == ReadU32(data, 1, bigEndian)
    IN  /\ (badLen /\ sv_pc # "start") =>
              /\ sv_pc = "panic"
              /\ sv_err = [kind |-> "data size is not a multiple of 4"]
              /\ words = <<>>
        /\ (~badLen /\ hasWord /\ first # 119734787 /\ SvDone) =>
              /\ sv_pc = "panic"
              /\ sv_err = [kind |-> "wrong magic word", observed |-> first]
        /\ sv_pc = "returned" => (~badLen /\ hasWord /\ first = 119734787)

\* Witness of C7: the magic error raised for an unaligned two-word input.
SpirvWrongMagicRaised ==
    /\ sv_pc = "panic"
    /\ sv_err.kind = "wrong magic word"
    /\ Len(data) = 8
    /\ ~aligned

\* C8: for every valid input the words returned number data.len()/4 and, laid
\* out in memory in the same byte order, are the input bytes; the words read
\* in place and the words copied are the same sequence for the same bytes.
SpirvRoundTrip ==
    sv_pc = "returned" =>
        /\ Len(words) = Len(data) \div 4
        /\ WordBytes(words, bigEndian) = data
        /\ words = AlignToWords(data, bigEndian)
        /\ words = CopiedWords(data, bigEndian)

\* Witness of C8: a two-word input returned through the copying branch on a
\* big-endian target.
SpirvCopiedReturned ==
    /\ sv_pc = "returned"
    /\ ~aligned
    /\ bigEndian
    /\ Len(data) = 8
    /\ data[8] = 127

\* C9: the collaborator calls are made in the order create_buffer, acquire
\* the mapped range, copy and zero, release the range, unmap, return; and the
\* buffer is unmapped on every exit path, also when acquiring the mapped range
\* fails.
BufferUnmappedOnEveryExit ==
    /\ bi_pc = "returned" =>
          OpsOf(bi_calls) = <<"create_buffer", "get_mapped_range_mut", "write_mapped",
                              "write_mapped", "drop_mapped_range", "unmap">>
    /\ (BiDone /\ buffer.created) =>
          /\ ~buffer.mapped
          /\ bi_calls[Len(bi_calls)].op = "unmap"

\* C10: the slice passed to every write_texture call holds at least the bytes
\* of the extent written: width_blocks * height_blocks * block size * depth.
TextureSliceCoversExtent ==
    \A i \in 1..Len(writes) :
        LET w == writes[i]
        IN  w.len >= (w.size.width \div BlockW(desc)) * (w.size.height \div BlockH(desc))
                       * BlockBytes(desc) * w.size.depth

====
